---- MODULE Spec2Model ----
(***************************************************************************)
(* Model of the interval processor: the Interval value type                *)
(* (src/core/Interval.js), the text parser (src/utils/parsers.js) and the  *)
(* two-phase IntervalProcessor (src/core/IntervalProcessor.js).            *)
(*                                                                         *)
(* A text is a sequence of one-character strings.  An Interval object is   *)
(* a record [start, end]; an operation that can throw returns a record     *)
(* with an ok flag, and every operation with a try/catch reports the       *)
(* branch it returned from.                                                *)
(***************************************************************************)
EXTENDS Integers, Sequences, FiniteSets, TLC

VARIABLES op, input, ret, prev

vars == <<op, input, ret, prev>>

(***************************************************************************)
(* Bounds of the model.                                                    *)
(***************************************************************************)
\* endpoints are drawn from -1..MaxVal
MaxVal == 3
\* longest include / exclude collection handed to process
MaxInc == 2
MaxExc == 2
\* longest collection handed to mergeIntervals directly
MaxMerge == 3
\* longest exclude collection in the texts that may hold a reversed pair
MaxRawExc == 1
\* sets processed side by side, and the endpoints (0..MaxSetVal) and the longest
\* include and exclude collection of such a set
MaxSets == 2
MaxSetVal == 1
MaxSetInc == 1
MaxSetExc == 1
\* longest text given for an option of the command line
MaxArgLen == 3
\* longest exclude collection scanned step by step for one include
MaxScanExc == 3
\* longest array of texts given as the includes or the excludes of a file object
MaxItems == 1

Vals == (0 - 1)..MaxVal

Min(x, y) == IF x <= y THEN x ELSE y
Max(x, y) == IF x >= y THEN x ELSE y

\* sequences over S of length 0..n
SeqsUpTo(S, n) == UNION {[1..k -> S] : k \in 0..n}

(***************************************************************************)
(* Interval.js                                                             *)
(***************************************************************************)
\* a constructor that also rejects the single-point range
Interval_strict(start, end) ==
    IF start >= end
    THEN [ok |-> FALSE, error |-> "Invalid interval"]
    ELSE [ok |-> TRUE, val |-> [start |-> start, end |-> end]]

\* constructor: throws when start > end, else stores both fields as given
Interval(start, end) ==
    IF start > end
    THEN [ok |-> FALSE, error |-> "Invalid interval"]
    ELSE [ok |-> TRUE, val |-> [start |-> start, end |-> end]]

\* an overlap test with strict comparisons: touching endpoints do not count
overlaps_strict(this, other) == this.start < other.end /\ other.start < this.end

overlaps(this, other) == this.start <= other.end /\ other.start <= this.end

contains(this, other) == this.start <= other.start /\ this.end >= other.end

\* an adjacency test that only looks above the receiver
isAdjacent_oneSided(this, other) == this.end + 1 = other.start

isAdjacent(this, other) == this.end + 1 = other.start \/ other.end + 1 = this.start

\* a merge that forgets the adjacency case
merge_overlapOnly(this, other) ==
    IF ~overlaps(this, other)
    THEN [ok |-> FALSE, error |-> "Cannot merge", branch |-> "notMergeable"]
    ELSE LET r == Interval(Min(this.start, other.start), Max(this.end, other.end))
         IN  IF r.ok
             THEN [ok |-> TRUE, val |-> r.val, branch |-> "merged"]
             ELSE [ok |-> FALSE, error |-> "Merge failed", branch |-> "mergeCatch"]

\* a merge that keeps the start of the receiver
merge_keepsStart(this, other) ==
    IF ~overlaps(this, other) /\ ~isAdjacent(this, other)
    THEN [ok |-> FALSE, error |-> "Cannot merge", branch |-> "notMergeable"]
    ELSE LET r == Interval(this.start, Max(this.end, other.end))
         IN  IF r.ok
             THEN [ok |-> TRUE, val |-> r.val, branch |-> "merged"]
             ELSE [ok |-> FALSE, error |-> "Merge failed", branch |-> "mergeCatch"]

merge(this, other) ==
    IF ~overlaps(this, other) /\ ~isAdjacent(this, other)
    THEN [ok |-> FALSE, error |-> "Cannot merge", branch |-> "notMergeable"]
    ELSE LET r == Interval(Min(this.start, other.start), Max(this.end, other.end))
         IN  IF r.ok
             THEN [ok |-> TRUE, val |-> r.val, branch |-> "merged"]
             ELSE [ok |-> FALSE, error |-> "Merge failed", branch |-> "mergeCatch"]

\* a subtract whose upper piece starts on the last excluded integer
subtract_offByOne(this, exclude) ==
    IF ~overlaps(this, exclude)
    THEN [pieces |-> <<this>>, branch |-> "noOverlap"]
    ELSE IF contains(exclude, this)
    THEN [pieces |-> <<>>, branch |-> "contained"]
    ELSE IF exclude.start > this.start /\ exclude.end < this.end
    THEN LET lo == Interval(this.start, exclude.start - 1)
             hi == Interval(exclude.end, this.end)
         IN  IF lo.ok /\ hi.ok
             THEN [pieces |-> <<lo.val, hi.val>>, branch |-> "middle"]
             ELSE [pieces |-> <<this>>, branch |-> "middleCatch"]
    ELSE IF exclude.start <= this.start /\ exclude.end < this.end
    THEN LET hi == Interval(exclude.end, this.end)
         IN  IF hi.ok
             THEN [pieces |-> <<hi.val>>, branch |-> "low"]
             ELSE [pieces |-> <<>>, branch |-> "lowCatch"]
    ELSE IF exclude.start > this.start /\ exclude.end >= this.end
    THEN LET lo == Interval(this.start, exclude.start - 1)
         IN  IF lo.ok
             THEN [pieces |-> <<lo.val>>, branch |-> "high"]
             ELSE [pieces |-> <<>>, branch |-> "highCatch"]
    ELSE [pieces |-> <<>>, branch |-> "fallThrough"]

\* a subtract whose high-end branch passes the endpoints in the wrong order
subtract_swapped(this, exclude) ==
    IF ~overlaps(this, exclude)
    THEN [pieces |-> <<this>>, branch |-> "noOverlap"]
    ELSE IF contains(exclude, this)
    THEN [pieces |-> <<>>, branch |-> "contained"]
    ELSE IF exclude.start > this.start /\ exclude.end < this.end
    THEN LET lo == Interval(this.start, exclude.start - 1)
             hi == Interval(exclude.end + 1, this.end)
         IN  IF lo.ok /\ hi.ok
             THEN [pieces |-> <<lo.val, hi.val>>, branch |-> "middle"]
             ELSE [pieces |-> <<this>>, branch |-> "middleCatch"]
    ELSE IF exclude.start <= this.start /\ exclude.end < this.end
    THEN LET hi == Interval(exclude.end + 1, this.end)
         IN  IF hi.ok
             THEN [pieces |-> <<hi.val>>, branch |-> "low"]
             ELSE [pieces |-> <<>>, branch |-> "lowCatch"]
    ELSE IF exclude.start > this.start /\ exclude.end >= this.end
    THEN LET lo == Interval(exclude.start - 1, this.start)
         IN  IF lo.ok
             THEN [pieces |-> <<lo.val>>, branch |-> "high"]
             ELSE [pieces |-> <<>>, branch |-> "highCatch"]
    ELSE [pieces |-> <<>>, branch |-> "fallThrough"]

\* a second guard that wants the exclude to start strictly below the range
subtract_strictLow(this, exclude) ==
    IF ~overlaps(this, exclude)
    THEN [pieces |-> <<this>>, branch |-> "noOverlap"]
    ELSE IF contains(exclude, this)
    THEN [pieces |-> <<>>, branch |-> "contained"]
    ELSE IF exclude.start > this.start /\ exclude.end < this.end
    THEN LET lo == Interval(this.start, exclude.start - 1)
             hi == Interval(exclude.end + 1, this.end)
         IN  IF lo.ok /\ hi.ok
             THEN [pieces |-> <<lo.val, hi.val>>, branch |-> "middle"]
             ELSE [pieces |-> <<this>>, branch |-> "middleCatch"]
    ELSE IF exclude.start < this.start /\ exclude.end < this.end
    THEN LET hi == Interval(exclude.end + 1, this.end)
         IN  IF hi.ok
             THEN [pieces |-> <<hi.val>>, branch |-> "low"]
             ELSE [pieces |-> <<>>, branch |-> "lowCatch"]
    ELSE IF exclude.start > this.start /\ exclude.end >= this.end
    THEN LET lo == Interval(this.start, exclude.start - 1)
         IN  IF lo.ok
             THEN [pieces |-> <<lo.val>>, branch |-> "high"]
             ELSE [pieces |-> <<>>, branch |-> "highCatch"]
    ELSE [pieces |-> <<>>, branch |-> "fallThrough"]

\* a subtract that returns the upper piece of a split before the lower one
subtract_highFirst(this, exclude) ==
    IF ~overlaps(this, exclude)
    THEN [pieces |-> <<this>>, branch |-> "noOverlap"]
    ELSE IF contains(exclude, this)
    THEN [pieces |-> <<>>, branch |-> "contained"]
    ELSE IF exclude.start > this.start /\ exclude.end < this.end
    THEN LET lo == Interval(this.start, exclude.start - 1)
             hi == Interval(exclude.end + 1, this.end)
         IN  IF lo.ok /\ hi.ok
             THEN [pieces |-> <<hi.val, lo.val>>, branch |-> "middle"]
             ELSE [pieces |-> <<this>>, branch |-> "middleCatch"]
    ELSE IF exclude.start <= this.start /\ exclude.end < this.end
    THEN LET hi == Interval(exclude.end + 1, this.end)
         IN  IF hi.ok
             THEN [pieces |-> <<hi.val>>, branch |-> "low"]
             ELSE [pieces |-> <<>>, branch |-> "lowCatch"]
    ELSE IF exclude.start > this.start /\ exclude.end >= this.end
    THEN LET lo == Interval(this.start, exclude.start - 1)
         IN  IF lo.ok
             THEN [pieces |-> <<lo.val>>, branch |-> "high"]
             ELSE [pieces |-> <<>>, branch |-> "highCatch"]
    ELSE [pieces |-> <<>>, branch |-> "fallThrough"]

subtract(this, exclude) ==
    IF ~overlaps(this, exclude)
    THEN [pieces |-> <<this>>, branch |-> "noOverlap"]
    ELSE IF contains(exclude, this)
    THEN [pieces |-> <<>>, branch |-> "contained"]
    ELSE IF exclude.start > this.start /\ exclude.end < this.end
    THEN LET lo == Interval(this.start, exclude.start - 1)
             hi == Interval(exclude.end + 1, this.end)
         IN  IF lo.ok /\ hi.ok
             THEN [pieces |-> <<lo.val, hi.val>>, branch |-> "middle"]
             ELSE [pieces |-> <<this>>, branch |-> "middleCatch"]
    ELSE IF exclude.start <= this.start /\ exclude.end < this.end
    THEN LET hi == Interval(exclude.end + 1, this.end)
         IN  IF hi.ok
             THEN [pieces |-> <<hi.val>>, branch |-> "low"]
             ELSE [pieces |-> <<>>, branch |-> "lowCatch"]
    ELSE IF exclude.start > this.start /\ exclude.end >= this.end
    THEN LET lo == Interval(this.start, exclude.start - 1)
         IN  IF lo.ok
             THEN [pieces |-> <<lo.val>>, branch |-> "high"]
             ELSE [pieces |-> <<>>, branch |-> "highCatch"]
    ELSE [pieces |-> <<>>, branch |-> "fallThrough"]

\* the receiver and the argument after this.merge(other): the method reads
\* their fields and assigns none of them
mergeArgs(this, other) == [this |-> this, other |-> other]

\* the receiver and the argument after this.subtract(exclude): no field is
\* assigned; the no-overlap branch returns the receiver itself, unchanged
subtractArgs(this, exclude) == [this |-> this, other |-> exclude]

\* a comparator that looks at the starts only
compare_startOnly(a, b) == a.start - b.start

\* Interval.compare: by start, then by end
compare(a, b) == IF a.start # b.start THEN a.start - b.start ELSE a.end - b.end

\* Interval.toString: `${start}-${end}`; a number prints as an optional
\* minus sign and its decimal digits
Digit(d) == <<"0", "1", "2", "3", "4", "5", "6", "7", "8", "9">>[d + 1]

RECURSIVE NatText(_)
NatText(n) == IF n < 10 THEN <<Digit(n)>> ELSE Append(NatText(n \div 10), Digit(n % 10))

NumberText(n) == IF n < 0 THEN <<"-">> \o NatText(0 - n) ELSE NatText(n)

toString(this) == NumberText(this.start) \o <<"-">> \o NumberText(this.end)

toJSON(this) == [start |-> this.start, end |-> this.end]

(***************************************************************************)
(* parsers.js, helpers.js                                                  *)
(***************************************************************************)
IsDigit(c) == c \in {"0", "1", "2", "3", "4", "5", "6", "7", "8", "9"}
IsSpace(c) == c = " "

DigitValue(c) == CHOOSE d \in 0..9 : Digit(d) = c

\* String.prototype.trim
RECURSIVE TrimLeft(_)
TrimLeft(t) == IF Len(t) > 0 /\ IsSpace(Head(t)) THEN TrimLeft(Tail(t)) ELSE t

RECURSIVE TrimRight(_)
TrimRight(t) ==
    IF Len(t) > 0 /\ IsSpace(t[Len(t)]) THEN TrimRight(SubSeq(t, 1, Len(t) - 1)) ELSE t

trim(t) == TrimRight(TrimLeft(t))

\* String.prototype.split(","): the pieces between commas, empty pieces kept
RECURSIVE SplitFrom(_, _, _)
SplitFrom(t, i, piece) ==
    IF i > Len(t) THEN <<piece>>
    ELSE IF t[i] = "," THEN <<piece>> \o SplitFrom(t, i + 1, <<>>)
    ELSE SplitFrom(t, i + 1, Append(piece, t[i]))

split(t) == SplitFrom(t, 1, <<>>)

\* Array.prototype.join(sep)
RECURSIVE join(_, _)
join(texts, sep) ==
    IF Len(texts) = 0 THEN <<>>
    ELSE IF Len(texts) = 1 THEN texts[1]
    ELSE texts[1] \o sep \o join(Tail(texts), sep)

\* first index >= i of t that holds no digit (Len(t) + 1 when there is none)
RECURSIVE SkipDigits(_, _)
SkipDigits(t, i) == IF i <= Len(t) /\ IsDigit(t[i]) THEN SkipDigits(t, i + 1) ELSE i

RECURSIVE SkipSpaces(_, _)
SkipSpaces(t, i) == IF i <= Len(t) /\ IsSpace(t[i]) THEN SkipSpaces(t, i + 1) ELSE i

\* the end of a match of -?\d+ that starts at index i, 0 when there is none
DigitsEnd(t, j) == IF SkipDigits(t, j) > j THEN SkipDigits(t, j) ELSE 0

NumberEnd(t, i) == DigitsEnd(t, IF i <= Len(t) /\ t[i] = "-" THEN i + 1 ELSE i)

\* REGEX_PATTERNS.INTERVAL_PARSE = /^(-?\d+)\s*-\s*(-?\d+)$/ : the two captured
\* groups, or no match.  Every run of digits and of spaces is followed by a
\* character of another class, so the greedy match is the only one.
\* e1 is the end of group 1, d the index of the separator, s2 and e2 the start
\* and the end of group 2.
MatchEnd(t, e1, s2, e2) ==
    IF e2 # 0 /\ e2 = Len(t) + 1
    THEN [match |-> TRUE, g1 |-> SubSeq(t, 1, e1 - 1), g2 |-> SubSeq(t, s2, e2 - 1)]
    ELSE [match |-> FALSE]

MatchSecond(t, e1, s2) == MatchEnd(t, e1, s2, NumberEnd(t, s2))

MatchSeparator(t, e1, d) ==
    IF d > Len(t) \/ t[d] # "-" THEN [match |-> FALSE]
    ELSE MatchSecond(t, e1, SkipSpaces(t, d + 1))

MatchFirst(t, e1) ==
    IF e1 = 0 THEN [match |-> FALSE] ELSE MatchSeparator(t, e1, SkipSpaces(t, e1))

INTERVAL_PARSE(t) == MatchFirst(t, NumberEnd(t, 1))

\* parseInt(str, 10) of a text matching -?\d+
RECURSIVE DigitsValue(_, _)
DigitsValue(t, acc) ==
    IF Len(t) = 0 THEN acc ELSE DigitsValue(Tail(t), acc * 10 + DigitValue(Head(t)))

parseInt(t) == IF Head(t) = "-" THEN 0 - DigitsValue(Tail(t), 0) ELSE DigitsValue(t, 0)

\* Number.isSafeInteger: the numerals of the model are far below 2^53
isValidInteger(num) == num \in Int

\* parseIntegerSafe: [nan |-> TRUE] stands for NaN
parseIntegerSafe(t) ==
    LET num == parseInt(t)
    IN  IF isValidInteger(num) THEN [nan |-> FALSE, num |-> num] ELSE [nan |-> TRUE]

\* an error of the constructor leaves parseIntervalString as thrown; its
\* message becomes the cause part of the parser's message
propagate(r) == IF r.ok THEN r ELSE [ok |-> FALSE, error |-> <<r.error>>]

\* parseIntervalString after the match: lines 25-32
parseMatched(start, end) ==
    IF start.nan \/ end.nan
    THEN [ok |-> FALSE, error |-> <<"Invalid numbers in interval">>]
    ELSE propagate(Interval(start.num, end.num))

parseTrimmed(trimmed, match) ==
    IF Len(trimmed) = 0 THEN [ok |-> FALSE, error |-> <<"Empty interval string">>]
    ELSE IF ~match.match THEN [ok |-> FALSE, error |-> <<"Invalid interval format">>]
    ELSE parseMatched(parseIntegerSafe(match.g1), parseIntegerSafe(match.g2))

parseIntervalString(str) ==
    parseTrimmed(trim(str), IF Len(trim(str)) = 0 THEN [match |-> FALSE]
                            ELSE INTERVAL_PARSE(trim(str)))

\* the map of parseIntervals: the first text that fails stops it
RECURSIVE ParseEach(_, _, _)
ParseEach(strs, index, done) ==
    IF index > Len(strs) THEN [ok |-> TRUE, val |-> done]
    ELSE LET r == parseIntervalString(strs[index])
         IN  IF r.ok THEN ParseEach(strs, index + 1, Append(done, r.val))
             ELSE [ok |-> FALSE,
                   error |-> <<"Error parsing interval", ToString(index)>> \o r.error]

SelectNonEmpty(texts) == SelectSeq(texts, LAMBDA t : Len(t) > 0)

\* an input is a string [kind |-> "string", text] or an array of strings
\* [kind |-> "array", items]
parseIntervals(in) ==
    IF in.kind = "string"
    THEN IF Len(in.text) = 0 \/ Len(trim(in.text)) = 0
         THEN [ok |-> TRUE, val |-> <<>>]
         ELSE ParseEach(
                  SelectNonEmpty([k \in DOMAIN split(in.text) |-> trim(split(in.text)[k])]),
                  1, <<>>)
    ELSE ParseEach(SelectSeq(in.items, LAMBDA t : Len(trim(t)) > 0), 1, <<>>)

\* formatIntervals: "(none)" for no intervals, else the toString forms joined
\* by ", "
formatIntervals(intervals) ==
    IF Len(intervals) = 0 THEN <<"(", "n", "o", "n", "e", ")">>
    ELSE join([k \in DOMAIN intervals |-> toString(intervals[k])], <<",", " ">>)

(***************************************************************************)
(* IntervalProcessor.js                                                    *)
(***************************************************************************)
\* [...xs].sort(Interval.compare): a stable insertion of every element
RECURSIVE InsertSorted(_, _)
InsertSorted(x, sorted) ==
    IF Len(sorted) = 0 THEN <<x>>
    ELSE IF compare(x, Head(sorted)) < 0 THEN <<x>> \o sorted
    ELSE <<Head(sorted)>> \o InsertSorted(x, Tail(sorted))

\* no sorting at all
sort_none(xs) == xs

RECURSIVE sort(_)
sort(xs) ==
    IF Len(xs) = 0 THEN <<>>
    ELSE InsertSorted(xs[Len(xs)], sort(SubSeq(xs, 1, Len(xs) - 1)))

\* a merge phase that sorts the caller's array itself: intervals.sort(...)
mergeIntervalsArgs_sortInPlace(intervals) ==
    IF Len(intervals) <= 1 THEN intervals ELSE sort(intervals)

\* the caller's array after mergeIntervals(intervals): line 58 sorts a copy,
\* [...intervals], and the loop pushes to the new array merged
mergeIntervalsArgs(intervals) == intervals

\* the caller's arrays after subtractIntervals(includes, excludes): line 99
\* sorts a copy of the excludes, the loops push to the new array result and
\* flatMap returns new arrays
subtractIntervalsArgs(includes, excludes) == [includes |-> includes, excludes |-> excludes]

\* a merge loop that merges overlapping ranges only
mergeStep_noAdjacent(acc, next) ==
    IF overlaps(acc.current, next)
    THEN LET m == merge(acc.current, next)
         IN  IF m.ok
             THEN [merged |-> acc.merged, current |-> m.val,
                   branches |-> acc.branches \cup {m.branch}]
             ELSE [merged |-> Append(acc.merged, acc.current), current |-> next,
                   branches |-> acc.branches \cup {m.branch, "loopCatch"}]
    ELSE [merged |-> Append(acc.merged, acc.current), current |-> next,
          branches |-> acc.branches]

\* a merge loop whose guard also lets through a gap of one integer
mergeStep_wideGuard(acc, next) ==
    IF next.start <= acc.current.end + 2
    THEN LET m == merge(acc.current, next)
         IN  IF m.ok
             THEN [merged |-> acc.merged, current |-> m.val,
                   branches |-> acc.branches \cup {m.branch}]
             ELSE [merged |-> Append(acc.merged, acc.current), current |-> next,
                   branches |-> acc.branches \cup {m.branch, "loopCatch"}]
    ELSE [merged |-> Append(acc.merged, acc.current), current |-> next,
          branches |-> acc.branches]

\* a walk that does not emit current when next starts a new range
mergeStep_dropsCurrent(acc, next) ==
    IF overlaps(acc.current, next) \/ isAdjacent(acc.current, next)
    THEN LET m == merge(acc.current, next)
         IN  IF m.ok
             THEN [merged |-> acc.merged, current |-> m.val,
                   branches |-> acc.branches \cup {m.branch}]
             ELSE [merged |-> Append(acc.merged, acc.current), current |-> next,
                   branches |-> acc.branches \cup {m.branch, "loopCatch"}]
    ELSE [merged |-> acc.merged, current |-> next, branches |-> acc.branches]

\* body of the merge loop; acc = [merged, current, branches], where branches
\* collects the branch of every merge call and "loopCatch" for the catch of
\* the loop
\* (the elements are Interval objects, so the !current and !next tests of
\* the code are never true)
mergeStep(acc, next) ==
    IF overlaps(acc.current, next) \/ isAdjacent(acc.current, next)
    THEN LET m == merge(acc.current, next)
         IN  IF m.ok
             THEN [merged |-> acc.merged, current |-> m.val,
                   branches |-> acc.branches \cup {m.branch}]
             ELSE [merged |-> Append(acc.merged, acc.current), current |-> next,
                   branches |-> acc.branches \cup {m.branch, "loopCatch"}]
    ELSE [merged |-> Append(acc.merged, acc.current), current |-> next,
          branches |-> acc.branches]

RECURSIVE mergeLoop(_, _, _)
mergeLoop(sorted, i, acc) ==
    IF i > Len(sorted) THEN acc ELSE mergeLoop(sorted, i + 1, mergeStep(acc, sorted[i]))

\* a merge phase that forgets to emit the last current range
mergeIntervals_noFinalPush(intervals) ==
    IF Len(intervals) <= 1 THEN [out |-> intervals, branches |-> {}]
    ELSE LET sorted == sort(intervals)
             acc    == mergeLoop(sorted, 2,
                                 [merged |-> <<>>, current |-> sorted[1], branches |-> {}])
         IN  [out |-> acc.merged, branches |-> acc.branches]

\* returns [out, branches]: out is the array the code returns
mergeIntervals(intervals) ==
    IF Len(intervals) <= 1 THEN [out |-> intervals, branches |-> {}]
    ELSE LET sorted == sort(intervals)
             acc    == mergeLoop(sorted, 2,
                                 [merged |-> <<>>, current |-> sorted[1], branches |-> {}])
         IN  [out |-> Append(acc.merged, acc.current), branches |-> acc.branches]

\* an exclude applied to the first piece only
applyExclude_firstOnly(current, exclude) ==
    IF Len(current) = 0 THEN [pieces |-> <<>>, branches |-> {}]
    ELSE IF overlaps(Head(current), exclude)
    THEN [pieces |-> subtract(Head(current), exclude).pieces \o Tail(current),
          branches |-> {subtract(Head(current), exclude).branch}]
    ELSE [pieces |-> current, branches |-> {}]

\* current.flatMap(interval => interval.overlaps(exclude) ? interval.subtract(exclude)
\* : [interval]); returns [pieces, branches]
RECURSIVE applyExclude(_, _)
applyExclude(current, exclude) ==
    IF Len(current) = 0 THEN [pieces |-> <<>>, branches |-> {}]
    ELSE LET interval == Head(current)
             rest     == applyExclude(Tail(current), exclude)
         IN  IF overlaps(interval, exclude)
             THEN LET r == subtract(interval, exclude)
                  IN  [pieces |-> r.pieces \o rest.pieces,
                       branches |-> {r.branch} \cup rest.branches]
             ELSE [pieces |-> <<interval>> \o rest.pieces, branches |-> rest.branches]

\* an early exit that already stops at an exclude starting on include.end
scanStep_eagerBreak(include, st, exclude) ==
    IF st.stopped THEN st
    ELSE IF exclude.start >= include.end THEN [st EXCEPT !.stopped = TRUE]
    ELSE IF exclude.end < include.start THEN st
    ELSE LET r == applyExclude(st.current, exclude)
         IN  [current |-> r.pieces, stopped |-> FALSE,
              branches |-> st.branches \cup r.branches]

\* an early exit taken as soon as an exclude ends beyond the include
scanStep_breakOnEnd(include, st, exclude) ==
    IF st.stopped THEN st
    ELSE IF exclude.end > include.end THEN [st EXCEPT !.stopped = TRUE]
    ELSE IF exclude.end < include.start THEN st
    ELSE LET r == applyExclude(st.current, exclude)
         IN  [current |-> r.pieces, stopped |-> FALSE,
              branches |-> st.branches \cup r.branches]

\* a skip that also passes over an exclude ending on include.start
scanStep_skipTouching(include, st, exclude) ==
    IF st.stopped THEN st
    ELSE IF exclude.start > include.end THEN [st EXCEPT !.stopped = TRUE]
    ELSE IF exclude.end <= include.start THEN st
    ELSE LET r == applyExclude(st.current, exclude)
         IN  [current |-> r.pieces, stopped |-> FALSE,
              branches |-> st.branches \cup r.branches]

\* body of the loop over the sorted excludes for one include;
\* st = [current, stopped, branches], stopped once the break was taken
scanStep(include, st, exclude) ==
    IF st.stopped THEN st
    ELSE IF exclude.start > include.end THEN [st EXCEPT !.stopped = TRUE]
    ELSE IF exclude.end < include.start THEN st
    ELSE LET r == applyExclude(st.current, exclude)
         IN  [current |-> r.pieces, stopped |-> FALSE,
              branches |-> st.branches \cup r.branches]

RECURSIVE scanExcludes(_, _, _, _)
scanExcludes(include, sortedExcludes, k, st) ==
    IF k > Len(sortedExcludes) THEN st
    ELSE scanExcludes(include, sortedExcludes, k + 1,
                      scanStep(include, st, sortedExcludes[k]))

RECURSIVE subtractLoop(_, _, _, _)
subtractLoop(includes, sortedExcludes, i, acc) ==
    IF i > Len(includes) THEN acc
    ELSE LET st == scanExcludes(includes[i], sortedExcludes, 1,
                                [current |-> <<includes[i]>>, stopped |-> FALSE,
                                 branches |-> {}])
         IN  subtractLoop(includes, sortedExcludes, i + 1,
                          [out |-> acc.out \o st.current,
                           branches |-> acc.branches \cup st.branches])

\* a subtraction phase that scans the excludes in the order given
subtractIntervals_unsorted(includes, excludes) ==
    IF Len(excludes) = 0 THEN [out |-> includes, branches |-> {}]
    ELSE subtractLoop(includes, excludes, 1, [out |-> <<>>, branches |-> {}])

\* a subtraction phase that sorts what it returns, also without excludes
subtractIntervals_alwaysSorts(includes, excludes) ==
    IF Len(excludes) = 0 THEN [out |-> sort(includes), branches |-> {}]
    ELSE LET r == subtractLoop(includes, sort(excludes), 1, [out |-> <<>>, branches |-> {}])
         IN  [out |-> sort(r.out), branches |-> r.branches]

\* returns [out, branches]: out is the array the code returns
subtractIntervals(includes, excludes) ==
    IF Len(excludes) = 0 THEN [out |-> includes, branches |-> {}]
    ELSE subtractLoop(includes, sort(excludes), 1, [out |-> <<>>, branches |-> {}])

\* the earlier, naive subtractIntervals: every exclude in the order given is
\* subtracted from every remaining piece, and the result is sorted at the end
RECURSIVE naiveStep(_, _)
naiveStep(result, exclude) ==
    IF Len(result) = 0 THEN <<>>
    ELSE subtract(Head(result), exclude).pieces \o naiveStep(Tail(result), exclude)

RECURSIVE naiveLoop(_, _, _)
naiveLoop(result, excludes, k) ==
    IF k > Len(excludes) THEN result
    ELSE naiveLoop(naiveStep(result, excludes[k]), excludes, k + 1)

subtractIntervalsNaive(includes, excludes) ==
    IF Len(excludes) = 0 THEN includes ELSE sort(naiveLoop(includes, excludes, 1))

NoneText == <<"(", "n", "o", "n", "e", ")">>
NoError == <<>>

\* the result object of process; error = NoError when the object has no error
\* field.  trace records the values of the locals of the call.  thrown tells
\* whether the call ended by an exception instead of a return.
processResult(intervals, formatted, error, trace) ==
    [intervals |-> intervals, formatted |-> formatted, error |-> error, trace |-> trace,
     thrown |-> FALSE]

NoTrace == [includeIntervals |-> <<>>, excludeIntervals |-> <<>>, merged |-> <<>>,
            branches |-> {}]

\* the catch block of process: a result object that carries the message
processError(message) ==
    processResult(<<>>, <<"(error: ">> \o message \o <<")">>, message, NoTrace)

\* a call that ends by the exception: the caller gets no result object
processThrow(message) ==
    [intervals |-> <<>>, formatted |-> <<>>, error |-> message, trace |-> NoTrace,
     thrown |-> TRUE]

\* a try block that parses the excludes as includes and the includes as excludes
tryProcess_swapped(in) ==
    LET includeIntervals == parseIntervals(in.excludes)
        excludeIntervals == parseIntervals(in.includes)
    IN  IF ~includeIntervals.ok THEN [ok |-> FALSE, error |-> includeIntervals.error]
        ELSE IF ~excludeIntervals.ok THEN [ok |-> FALSE, error |-> excludeIntervals.error]
        ELSE IF Len(includeIntervals.val) = 0
        THEN [ok |-> TRUE,
              val |-> processResult(<<>>, NoneText, NoError,
                          [NoTrace EXCEPT !.includeIntervals = includeIntervals.val,
                                          !.excludeIntervals = excludeIntervals.val])]
        ELSE LET merged == mergeIntervals(includeIntervals.val)
                 result == subtractIntervals(merged.out, excludeIntervals.val)
                 formatted ==
                     IF Len(result.out) > 0
                     THEN join([k \in DOMAIN result.out |-> toString(result.out[k])],
                               <<",", " ">>)
                     ELSE NoneText
             IN  [ok |-> TRUE,
                  val |-> processResult([k \in DOMAIN result.out |-> toJSON(result.out[k])],
                              formatted, NoError,
                              [includeIntervals |-> includeIntervals.val,
                               excludeIntervals |-> excludeIntervals.val,
                               merged |-> merged.out,
                               branches |-> merged.branches \cup result.branches])]

\* a try block that formats the merged includes instead of the result
tryProcess_formatsMerged(in) ==
    LET includeIntervals == parseIntervals(in.includes)
        excludeIntervals == parseIntervals(in.excludes)
    IN  IF ~includeIntervals.ok THEN [ok |-> FALSE, error |-> includeIntervals.error]
        ELSE IF ~excludeIntervals.ok THEN [ok |-> FALSE, error |-> excludeIntervals.error]
        ELSE IF Len(includeIntervals.val) = 0
        THEN [ok |-> TRUE,
              val |-> processResult(<<>>, NoneText, NoError,
                          [NoTrace EXCEPT !.includeIntervals = includeIntervals.val,
                                          !.excludeIntervals = excludeIntervals.val])]
        ELSE LET merged == mergeIntervals(includeIntervals.val)
                 result == subtractIntervals(merged.out, excludeIntervals.val)
                 formatted ==
                     IF Len(merged.out) > 0
                     THEN join([k \in DOMAIN merged.out |-> toString(merged.out[k])],
                               <<",", " ">>)
                     ELSE NoneText
             IN  [ok |-> TRUE,
                  val |-> processResult([k \in DOMAIN result.out |-> toJSON(result.out[k])],
                              formatted, NoError,
                              [includeIntervals |-> includeIntervals.val,
                               excludeIntervals |-> excludeIntervals.val,
                               merged |-> merged.out,
                               branches |-> merged.branches \cup result.branches])]

\* a try block that subtracts from the includes as parsed, not as merged
tryProcess_subtractsUnmerged(in) ==
    LET includeIntervals == parseIntervals(in.includes)
        excludeIntervals == parseIntervals(in.excludes)
    IN  IF ~includeIntervals.ok THEN [ok |-> FALSE, error |-> includeIntervals.error]
        ELSE IF ~excludeIntervals.ok THEN [ok |-> FALSE, error |-> excludeIntervals.error]
        ELSE IF Len(includeIntervals.val) = 0
        THEN [ok |-> TRUE,
              val |-> processResult(<<>>, NoneText, NoError,
                          [NoTrace EXCEPT !.includeIntervals = includeIntervals.val,
                                          !.excludeIntervals = excludeIntervals.val])]
        ELSE LET merged == mergeIntervals(includeIntervals.val)
                 result == subtractIntervals(includeIntervals.val, excludeIntervals.val)
                 formatted ==
                     IF Len(result.out) > 0
                     THEN join([k \in DOMAIN result.out |-> toString(result.out[k])],
                               <<",", " ">>)
                     ELSE NoneText
             IN  [ok |-> TRUE,
                  val |-> processResult([k \in DOMAIN result.out |-> toJSON(result.out[k])],
                              formatted, NoError,
                              [includeIntervals |-> includeIntervals.val,
                               excludeIntervals |-> excludeIntervals.val,
                               merged |-> merged.out,
                               branches |-> merged.branches \cup result.branches])]

\* the formatted text of the result of the subtraction
formatResult(out) ==
    IF Len(out) > 0 THEN join([k \in DOMAIN out |-> toString(out[k])], <<",", " ">>)
    ELSE NoneText

\* the return statement of the try block, from the values of its locals
returnProcessed(includeIntervals, excludeIntervals, merged, result) ==
    [ok |-> TRUE,
     val |-> processResult([k \in DOMAIN result.out |-> toJSON(result.out[k])],
                 formatResult(result.out), NoError,
                 [includeIntervals |-> includeIntervals,
                  excludeIntervals |-> excludeIntervals,
                  merged |-> merged.out,
                  branches |-> merged.branches \cup result.branches])]

\* the try block after mergeIntervals has returned merged
subtractMerged(includeIntervals, excludeIntervals, merged) ==
    returnProcessed(includeIntervals, excludeIntervals, merged,
                    subtractIntervals(merged.out, excludeIntervals))

\* the try block after both texts are parsed
processParsed(includeIntervals, excludeIntervals) ==
    IF ~includeIntervals.ok THEN [ok |-> FALSE, error |-> includeIntervals.error]
    ELSE IF ~excludeIntervals.ok THEN [ok |-> FALSE, error |-> excludeIntervals.error]
    ELSE IF Len(includeIntervals.val) = 0
    THEN [ok |-> TRUE,
          val |-> processResult(<<>>, NoneText, NoError,
                      [NoTrace EXCEPT !.includeIntervals = includeIntervals.val,
                                      !.excludeIntervals = excludeIntervals.val])]
    ELSE subtractMerged(includeIntervals.val, excludeIntervals.val,
                        mergeIntervals(includeIntervals.val))

\* the try block of process: ok with the result object it returns, or the
\* message of the error thrown inside it
tryProcess(in) ==
    processParsed(parseIntervals(in.includes), parseIntervals(in.excludes))

\* a process without the catch: the error leaves the call
process_noCatch(in) ==
    LET r == tryProcess(in) IN IF r.ok THEN r.val ELSE processThrow(r.error)

process(in) ==
    LET r == tryProcess(in) IN IF r.ok THEN r.val ELSE processError(r.error)

(***************************************************************************)
(* validators.js                                                           *)
(***************************************************************************)
\* the values an option or a field may hold: undefined, null or a string
Undefined == [kind |-> "undefined"]
Null == [kind |-> "null"]
Str(t) == [kind |-> "string", text |-> t]

\* the truth value a condition gives a value: undefined, null and the empty
\* string are false, an array is true
Truthy(v) == (v.kind = "string" /\ Len(v.text) > 0) \/ v.kind = "array"

createSuccessResult == [valid |-> TRUE]
createErrorResult(error) == [valid |-> FALSE, error |-> error]

\* REGEX_PATTERNS.INTERVAL_FORMAT = /^-?\d+\s*-\s*-?\d+$/ : number, spaces,
\* separator, spaces, number, end of text
INTERVAL_FORMAT(t) == MatchFirst(t, NumberEnd(t, 1)).match

\* validateIntervalFormat after the match: overflow, then start <= end
validateNumbers(start, end) ==
    IF start.nan \/ end.nan
    THEN createErrorResult(<<"Numbers too large in interval">>)
    ELSE IF start.num > end.num
    THEN createErrorResult(<<"Start cannot be greater than end">>)
    ELSE createSuccessResult

validateMatch(match) ==
    IF ~match.match THEN createErrorResult(<<"Cannot parse interval">>)
    ELSE validateNumbers(parseIntegerSafe(match.g1), parseIntegerSafe(match.g2))

validateIntervalFormat(str) ==
    IF Len(trim(str)) = 0 THEN createSuccessResult
    ELSE IF ~INTERVAL_FORMAT(trim(str)) THEN createErrorResult(<<"Invalid format">>)
    ELSE validateMatch(INTERVAL_PARSE(trim(str)))

\* the loop of validateIntervalString: the first text that fails stops it
RECURSIVE ValidateEach(_, _)
ValidateEach(intervals, i) ==
    IF i > Len(intervals) THEN createSuccessResult
    ELSE LET result == validateIntervalFormat(intervals[i])
         IN  IF ~result.valid
             THEN createErrorResult(<<"Interval", ToString(i)>> \o result.error)
             ELSE ValidateEach(intervals, i + 1)

validateIntervalString(str) ==
    IF Len(trim(str)) = 0 THEN createSuccessResult
    ELSE ValidateEach(SelectNonEmpty([k \in DOMAIN split(str) |-> trim(split(str)[k])]), 1)

\* toLowerCase of the letters of ".json"
Lower(c) ==
    IF c = "J" THEN "j" ELSE IF c = "S" THEN "s" ELSE IF c = "O" THEN "o"
    ELSE IF c = "N" THEN "n" ELSE c

\* REGEX_PATTERNS.JSON_FILE = /\.json$/i
isFilePath(str) ==
    /\ Len(str) >= 5
    /\ [k \in 1..5 |-> Lower(str[Len(str) - 5 + k])] = <<".", "j", "s", "o", "n">>

\* validateCliArgs below the file mode: includes, then excludes when given
validateDirect(includes, excludes) ==
    IF ~validateIntervalString(includes.text).valid
    THEN createErrorResult(<<"Invalid includes">> \o validateIntervalString(includes.text).error)
    ELSE IF Truthy(excludes) /\ ~validateIntervalString(excludes.text).valid
    THEN createErrorResult(<<"Invalid excludes">> \o validateIntervalString(excludes.text).error)
    ELSE createSuccessResult

\* a validateCliArgs that takes only undefined and null for missing includes
validateCliArgs_nullOnly(includes, excludes, file) ==
    IF Truthy(file)
    THEN IF ~isFilePath(file.text)
         THEN createErrorResult(<<"File must have .json extension">>)
         ELSE createSuccessResult
    ELSE IF includes.kind \in {"undefined", "null"}
    THEN createErrorResult(<<"Must provide includes parameter or file">>)
    ELSE validateDirect(includes, excludes)

validateCliArgs(includes, excludes, file) ==
    IF Truthy(file)
    THEN IF ~isFilePath(file.text)
         THEN createErrorResult(<<"File must have .json extension">>)
         ELSE createSuccessResult
    ELSE IF ~Truthy(includes)
    THEN createErrorResult(<<"Must provide includes parameter or file">>)
    ELSE validateDirect(includes, excludes)

\* an array of strings, and a value that is neither a string nor an array
Arr(items) == [kind |-> "array", items |-> items]
Num == [kind |-> "number"]

\* validateSingleFileObject; a field that holds Undefined is absent
validateSingleFileObject(fileData, context) ==
    IF fileData.kind # "object" THEN createErrorResult(context \o <<"must be an object">>)
    ELSE IF fileData.includes = Undefined
    THEN createErrorResult(context \o <<"must contain includes field">>)
    ELSE IF fileData.includes.kind \notin {"string", "array"}
    THEN createErrorResult(context \o <<"includes must be a string or array of strings">>)
    ELSE IF fileData.excludes.kind \notin {"undefined", "string", "array"}
    THEN createErrorResult(context \o <<"excludes must be a string or array of strings">>)
    ELSE LET includesResult ==
                 validateIntervalString(IF fileData.includes.kind = "array"
                                        THEN join(fileData.includes.items, <<",">>)
                                        ELSE fileData.includes.text)
             excludesResult ==
                 IF Truthy(fileData.excludes)
                 THEN validateIntervalString(IF fileData.excludes.kind = "array"
                                             THEN join(fileData.excludes.items, <<",">>)
                                             ELSE fileData.excludes.text)
                 ELSE createSuccessResult
         IN  IF ~includesResult.valid
             THEN createErrorResult(context \o <<"Invalid includes">> \o includesResult.error)
             ELSE IF ~excludesResult.valid
             THEN createErrorResult(context \o <<"Invalid excludes">> \o excludesResult.error)
             ELSE createSuccessResult

\* the loop of validateFileInput over the objects of an array
RECURSIVE ValidateItems(_, _)
ValidateItems(data, i) ==
    IF i > Len(data) THEN createSuccessResult
    ELSE LET result == validateSingleFileObject(data[i], <<"Array item", ToString(i)>>)
         IN  IF ~result.valid
             THEN createErrorResult(<<"Array", ToString(i)>> \o result.error)
             ELSE ValidateItems(data, i + 1)

\* validateFileInput: data is an object, an array of objects ([kind |->
\* "list", items]) or another JSON value
validateFileInput(data) ==
    IF data.kind \notin {"object", "list"}
    THEN createErrorResult(<<"File must contain valid JSON (object or array of objects)">>)
    ELSE IF data.kind = "list"
    THEN IF Len(data.items) = 0 THEN createErrorResult(<<"Input array cannot be empty">>)
         ELSE ValidateItems(data.items, 1)
    ELSE validateSingleFileObject(data, <<"Input object">>)

(***************************************************************************)
(* Calls of the Interval operations on drawn arguments.                    *)
(***************************************************************************)
\* the Interval objects that exist: the constructor accepted them
Ranges == {r \in [start : Vals, end : Vals] : r.start <= r.end}

InitRange ==
    /\ op = "none"
    /\ input \in [s1 : Vals, e1 : Vals, s2 : Vals, e2 : Vals]
    /\ ret = <<>>
    /\ prev = <<>>

ArgA == [start |-> input.s1, end |-> input.e1]
ArgB == [start |-> input.s2, end |-> input.e2]

\* both arguments are Interval objects
HasObjects == ArgA \in Ranges /\ ArgB \in Ranges

\* the two objects of a call, as the fields of the input
ArgsRecord(args) ==
    [s1 |-> args.this.start, e1 |-> args.this.end, s2 |-> args.other.start, e2 |-> args.other.end]

CallNew ==
    /\ op = "none"
    /\ "s1" \in DOMAIN input
    /\ op' = "new"
    /\ ret' = Interval(input.s1, input.e1)
    /\ UNCHANGED <<input, prev>>

CallMerge ==
    /\ op = "none"
    /\ "s1" \in DOMAIN input
    /\ HasObjects
    /\ op' = "merge"
    /\ ret' = merge(ArgA, ArgB)
    /\ input' = ArgsRecord(mergeArgs(ArgA, ArgB))
    /\ UNCHANGED prev

CallSubtract ==
    /\ op = "none"
    /\ "s1" \in DOMAIN input
    /\ HasObjects
    /\ op' = "subtract"
    /\ ret' = subtract(ArgA, ArgB)
    /\ input' = ArgsRecord(subtractArgs(ArgA, ArgB))
    /\ UNCHANGED prev

\* the predicates are single expressions over the fields of both objects
CallOverlaps ==
    /\ op = "none"
    /\ "s1" \in DOMAIN input
    /\ HasObjects
    /\ op' = "overlaps"
    /\ ret' = [value |-> overlaps(ArgA, ArgB), swapped |-> overlaps(ArgB, ArgA)]
    /\ UNCHANGED <<input, prev>>

CallContains ==
    /\ op = "none"
    /\ "s1" \in DOMAIN input
    /\ HasObjects
    /\ op' = "contains"
    /\ ret' = [value |-> contains(ArgA, ArgB), swapped |-> contains(ArgB, ArgA)]
    /\ UNCHANGED <<input, prev>>

CallIsAdjacent ==
    /\ op = "none"
    /\ "s1" \in DOMAIN input
    /\ HasObjects
    /\ op' = "isAdjacent"
    /\ ret' = [value |-> isAdjacent(ArgA, ArgB), swapped |-> isAdjacent(ArgB, ArgA),
               overlaps |-> overlaps(ArgA, ArgB)]
    /\ UNCHANGED <<input, prev>>

NextPredicate == CallOverlaps \/ CallContains \/ CallIsAdjacent

SpecPredicate == InitRange /\ [][NextPredicate]_vars

NextRange == CallNew \/ CallMerge \/ CallSubtract

SpecRange == InitRange /\ [][NextRange]_vars

(***************************************************************************)
(* Calls of Interval.compare on three drawn Interval objects.              *)
(***************************************************************************)
InitOrder ==
    /\ op = "none"
    /\ input \in [a : Ranges, b : Ranges, c : Ranges]
    /\ ret = <<>>
    /\ prev = <<>>

\* the comparator applied to each pair a sort may hand it
CallCompare ==
    /\ op = "none"
    /\ op' = "compare"
    /\ ret' = [ab |-> compare(input.a, input.b), ba |-> compare(input.b, input.a),
               bc |-> compare(input.b, input.c), ac |-> compare(input.a, input.c)]
    /\ UNCHANGED <<input, prev>>

NextOrder == CallCompare

SpecOrder == InitOrder /\ [][NextOrder]_vars

(***************************************************************************)
(* Calls of mergeIntervals and subtractIntervals on drawn Interval arrays. *)
(***************************************************************************)
InitMerge ==
    /\ op = "none"
    /\ input \in [intervals : SeqsUpTo(Ranges, MaxMerge)]
    /\ ret = <<>>
    /\ prev = <<>>

InitSubtract ==
    /\ op = "none"
    /\ input \in [includes : SeqsUpTo(Ranges, MaxInc), excludes : SeqsUpTo(Ranges, MaxExc)]
    /\ ret = <<>>
    /\ prev = <<>>

CallMergeIntervals ==
    /\ op = "none"
    /\ "intervals" \in DOMAIN input
    /\ op' = "mergeIntervals"
    /\ ret' = mergeIntervals(input.intervals)
    /\ input' = [intervals |-> mergeIntervalsArgs(input.intervals)]
    /\ UNCHANGED prev

CallSubtractIntervals ==
    /\ op = "none"
    /\ "excludes" \in DOMAIN input
    /\ op' = "subtractIntervals"
    /\ ret' = subtractIntervals(input.includes, input.excludes)
    /\ input' = subtractIntervalsArgs(input.includes, input.excludes)
    /\ UNCHANGED prev

NextMerge == CallMergeIntervals

SpecMerge == InitMerge /\ [][NextMerge]_vars

\* every operation of the core, each on its own drawn arguments
InitCore == InitRange \/ InitMerge \/ InitSubtract

NextCore ==
    \/ CallNew \/ CallMerge \/ CallSubtract \/ CallMergeIntervals \/ CallSubtractIntervals
    \/ CallOverlaps \/ CallContains \/ CallIsAdjacent

SpecCore == InitCore /\ [][NextCore]_vars

(***************************************************************************)
(* Calls of process on texts.                                              *)
(***************************************************************************)
\* a comma-separated text, as the README and the tests write it
ListText(ranges) ==
    [kind |-> "string",
     text |-> join([k \in DOMAIN ranges |-> toString(ranges[k])], <<",", " ">>)]

InitProc ==
    /\ op = "none"
    /\ \E incs \in SeqsUpTo(Ranges, MaxInc), excs \in SeqsUpTo(Ranges, MaxExc) :
          input = [includes |-> ListText(incs), excludes |-> ListText(excs)]
    /\ ret = <<>>
    /\ prev = <<>>

Process ==
    /\ op = "none"
    /\ op' = "process"
    /\ ret' = process(input)
    /\ UNCHANGED <<input, prev>>

\* process again, on the ranges the first call returned and no excludes
ProcessAgain ==
    /\ op = "process"
    /\ op' = "processAgain"
    /\ prev' = ret
    /\ input' = [includes |-> [kind |-> "array",
                               items |-> [k \in DOMAIN ret.intervals |->
                                             toString(ret.intervals[k])]],
                 excludes |-> [kind |-> "string", text |-> <<>>]]
    /\ ret' = process(input')

NextProc == Process \/ ProcessAgain

SpecProc == InitProc /\ [][NextProc]_vars

(***************************************************************************)
(* The subtraction phase called directly, and process called on the texts  *)
(* of the same ranges.                                                     *)
(***************************************************************************)
CallProcessRanges ==
    /\ op = "none"
    /\ "excludes" \in DOMAIN input
    /\ op' = "process"
    /\ ret' = process([includes |-> ListText(input.includes),
                       excludes |-> ListText(input.excludes)])
    /\ UNCHANGED <<input, prev>>

\* both subtractions on the same arguments
CallSubtractNaive ==
    /\ op = "none"
    /\ "excludes" \in DOMAIN input
    /\ op' = "subtractNaive"
    /\ ret' = [optimized |-> subtractIntervals(input.includes, input.excludes).out,
               naive |-> subtractIntervalsNaive(input.includes, input.excludes)]
    /\ UNCHANGED <<input, prev>>

NextPhase == CallSubtractIntervals \/ CallProcessRanges \/ CallSubtractNaive

SpecPhase == InitSubtract /\ [][NextPhase]_vars

(***************************************************************************)
(* Calls of process on texts that may hold a reversed pair, such as 3-1.   *)
(***************************************************************************)
\* every pair of endpoints a text can name, start > end included
Pairs == [start : Vals, end : Vals]

InitRaw ==
    /\ op = "none"
    /\ \E incs \in SeqsUpTo(Pairs, MaxInc), excs \in SeqsUpTo(Pairs, MaxRawExc) :
          input = [includes |-> ListText(incs), excludes |-> ListText(excs)]
    /\ ret = <<>>
    /\ prev = <<>>

NextRaw == Process

SpecRaw == InitRaw /\ [][NextRaw]_vars

(***************************************************************************)
(* Several range sets: separate invocations of process that run side by    *)
(* side, one per set, each statement of process a step, and the loop of    *)
(* processArrayOfObjects over the same sets (cli/commands.js).             *)
(***************************************************************************)
SetRanges == {r \in [start : 0..MaxSetVal, end : 0..MaxSetVal] : r.start <= r.end}

\* the items of an input file: objects with includes and excludes
SetPool ==
    {[includes |-> ListText(incs), excludes |-> ListText(excs)] :
        incs \in SeqsUpTo(SetRanges, MaxSetInc), excs \in SeqsUpTo(SetRanges, MaxSetExc)}

NoResult == processResult(<<>>, <<>>, NoError, NoTrace)

\* the locals of one invocation of process, before its first statement
processStart(set) ==
    [pc |-> "parse", set |-> set, includeIntervals |-> <<>>, excludeIntervals |-> <<>>,
     merged |-> <<>>, result |-> <<>>, returned |-> NoResult]

processParse(l, inc, exc) ==
    IF ~inc.ok THEN [l EXCEPT !.pc = "done", !.returned = processError(inc.error)]
    ELSE IF ~exc.ok THEN [l EXCEPT !.pc = "done", !.returned = processError(exc.error)]
    ELSE [l EXCEPT !.pc = "check", !.includeIntervals = inc.val, !.excludeIntervals = exc.val]

processFormat(l) ==
    [l EXCEPT !.pc = "done",
              !.returned = processResult([k \in DOMAIN l.result |-> toJSON(l.result[k])],
                               IF Len(l.result) > 0
                               THEN join([k \in DOMAIN l.result |-> toString(l.result[k])],
                                         <<",", " ">>)
                               ELSE NoneText,
                               NoError, NoTrace)]

\* one statement of process, on the locals l of its invocation
processStep(l) ==
    CASE l.pc = "parse" ->
            processParse(l, parseIntervals(l.set.includes), parseIntervals(l.set.excludes))
      [] l.pc = "check" ->
            IF Len(l.includeIntervals) = 0
            THEN [l EXCEPT !.pc = "done",
                           !.returned = processResult(<<>>, NoneText, NoError, NoTrace)]
            ELSE [l EXCEPT !.pc = "merge"]
      [] l.pc = "merge" ->
            [l EXCEPT !.pc = "subtract", !.merged = mergeIntervals(l.includeIntervals).out]
      [] l.pc = "subtract" ->
            [l EXCEPT !.pc = "format",
                      !.result = subtractIntervals(l.merged, l.excludeIntervals).out]
      [] l.pc = "format" -> processFormat(l)

\* every invocation works on the locals of the first one, as if the locals of
\* process were variables of the module
ownLocals_shared(invocations, w) == invocations[1]

\* the locals an invocation works on: its own (const declarations inside
\* process; the class and the modules keep no state)
ownLocals(invocations, w) == invocations[w]

\* allResults.push({index: i + 1, ..., result: formatted, intervals})
pushResult(allResults, i, result) ==
    Append(allResults, [index |-> i + 1, result |-> result.formatted,
                        intervals |-> result.intervals])

\* one iteration of the loop of processArrayOfObjects; i counts from 0.
\* parseIntervals(item.includes) runs outside process: its error ends the loop
loopIteration(dataArray, f) ==
    IF ~parseIntervals(dataArray[f.i + 1].includes).ok
    THEN [f EXCEPT !.pc = "thrown"]
    ELSE [f EXCEPT !.i = f.i + 1,
                   !.allResults = pushResult(f.allResults, f.i, process(dataArray[f.i + 1]))]

RECURSIVE flatIntervals(_)
flatIntervals(allResults) ==
    IF Len(allResults) = 0 THEN <<>>
    ELSE Head(allResults).intervals \o flatIntervals(Tail(allResults))

InitSets ==
    /\ op = "sets"
    /\ input \in [sets : [1..MaxSets -> SetPool]]
    /\ ret = [invocations |-> [w \in 1..MaxSets |-> processStart(input.sets[w])],
              file |-> [pc |-> "loop", i |-> 0, allResults |-> <<>>,
                        multipleResults |-> <<>>, intervals |-> <<>>]]
    /\ prev = <<>>

\* invocation w runs its next statement
InvocationStep(w) ==
    /\ op = "sets"
    /\ ret.invocations[w].pc # "done"
    /\ ret' = [ret EXCEPT !.invocations[w] = processStep(ownLocals(ret.invocations, w))]
    /\ UNCHANGED <<op, input, prev>>

\* the loop takes its next item
LoopStep ==
    /\ op = "sets"
    /\ ret.file.pc = "loop"
    /\ ret.file.i < Len(input.sets)
    /\ ret' = [ret EXCEPT !.file = loopIteration(input.sets, ret.file)]
    /\ UNCHANGED <<op, input, prev>>

\* the loop is over: processArrayOfObjects returns
LoopReturn ==
    /\ op = "sets"
    /\ ret.file.pc = "loop"
    /\ ret.file.i = Len(input.sets)
    /\ ret' = [ret EXCEPT !.file.pc = "returned",
                          !.file.multipleResults = ret.file.allResults,
                          !.file.intervals = flatIntervals(ret.file.allResults)]
    /\ UNCHANGED <<op, input, prev>>

NextSets == (\E w \in 1..MaxSets : InvocationStep(w)) \/ LoopStep \/ LoopReturn

SpecSets == InitSets /\ [][NextSets]_vars

(***************************************************************************)
(* validateCliArgs on drawn option values.                                 *)
(***************************************************************************)
ArgChars == {"1", "2", "-", ",", " "}
ArgTexts == SeqsUpTo(ArgChars, MaxArgLen)
ArgValues == {Undefined, Null} \cup {Str(t) : t \in ArgTexts}
FileValues ==
    {Undefined, Null, Str(<<>>), Str(<<"a", ".", "j", "s", "o", "n">>),
     Str(<<"a", ".", "J", "S", "O", "N">>), Str(<<"a", ".", "t", "x", "t">>),
     Str(<<"j", "s", "o", "n">>), Str(<<"a", ".", "j", "s", "o", "n", "5">>)}

InitArgs ==
    /\ op = "init"
    /\ input \in [includes : ArgValues, excludes : ArgValues, file : FileValues]
    /\ ret = <<>>
    /\ prev = <<>>

CallValidateCliArgs ==
    /\ op = "init"
    /\ op' = "validateCliArgs"
    /\ ret' = validateCliArgs(input.includes, input.excludes, input.file)
    /\ UNCHANGED <<input, prev>>

NextArgs == CallValidateCliArgs

SpecArgs == InitArgs /\ [][NextArgs]_vars

(***************************************************************************)
(* The command line: cli.js (main) and cli/commands.js (handleCommand,     *)
(* processFromArgs, processFromFile, processArrayOfObjects).               *)
(***************************************************************************)
\* excludes ?? ""
orEmpty(v) == IF v.kind \in {"undefined", "null"} THEN Str(<<>>) ELSE v

\* Array.isArray(x) ? x.join(", ") : x, for the lines that echo the input
echoText(v) == IF v.kind = "array" THEN join(v.items, <<",", " ">>) ELSE v.text

\* the outcome of a handler: the result it returns or the message it throws
returned(val) == [ok |-> TRUE, val |-> val]
thrown(message) == [ok |-> FALSE, error |-> message]

\* the part of processFromArgs and of processFromFile after the validation:
\* parseIntervals(includes) for the statistics, then process
parseAndProcess(includes, excludes, prefix) ==
    IF ~parseIntervals(includes).ok THEN thrown(<<prefix>> \o parseIntervals(includes).error)
    ELSE returned(process([includes |-> includes, excludes |-> orEmpty(excludes)]))

processFromArgs(includes, excludes) ==
    IF ~validateCliArgs(includes, excludes, Undefined).valid
    THEN thrown(<<"Processing failed">> \o validateCliArgs(includes, excludes, Undefined).error)
    ELSE parseAndProcess(includes, excludes, "Processing failed")

\* the loop of processArrayOfObjects, to its end or to the error that ends it
RECURSIVE runLoop(_, _)
runLoop(dataArray, f) ==
    IF f.pc = "thrown" \/ f.i = Len(dataArray) THEN f
    ELSE runLoop(dataArray, loopIteration(dataArray, f))

\* f holds the locals the loop left
processArrayOfObjects(dataArray) ==
    LET f == runLoop([k \in DOMAIN dataArray |->
                         [includes |-> dataArray[k].includes,
                          excludes |-> orEmpty(dataArray[k].excludes)]],
                     [pc |-> "loop", i |-> 0, allResults |-> <<>>,
                      multipleResults |-> <<>>, intervals |-> <<>>])
    IN  IF f.pc = "thrown"
        THEN thrown(<<"File processing failed">>
                        \o parseIntervals(dataArray[f.i + 1].includes).error)
        ELSE returned([multipleResults |-> f.allResults,
                       intervals |-> flatIntervals(f.allResults)])

\* processFromFile on the content the file system gives for the path
processFromFile(content) ==
    IF content.kind = "enoent" THEN thrown(<<"File not found">>)
    ELSE IF content.kind = "badjson"
    THEN thrown(<<"File processing failed", "Invalid JSON format in file">>)
    ELSE IF ~validateFileInput(content).valid
    THEN thrown(<<"File processing failed">> \o validateFileInput(content).error)
    ELSE IF content.kind = "list" THEN processArrayOfObjects(content.items)
    ELSE parseAndProcess(content.includes, content.excludes, "File processing failed")

\* what one run of the command has printed and how it ended: help tells
\* whether the help text was shown, output holds the texts printed as Output
\* or Result, error the message printed to the error stream, code the exit
\* code (0 also when main returns)
cliState(pc, help, output, error, code) ==
    [pc |-> pc, help |-> help, output |-> output, error |-> error, code |-> code]

\* the catch block of handleCommand
handleError(output, message) == cliState("exited", FALSE, output, message, 1)

\* handleCommand after the result of a single set is known: the output line,
\* then the statistics, which parse the echoed excludes once more
displayResult(result, excludesInput) ==
    IF Len(result.intervals) > 0 /\ Len(excludesInput) > 0
       /\ ~parseIntervals(Str(excludesInput)).ok
    THEN handleError(<<result.formatted>>, parseIntervals(Str(excludesInput)).error)
    ELSE cliState("returned", FALSE, <<result.formatted>>, NoError, 0)

displayMultipleResults(result) ==
    cliState("returned", FALSE,
             [k \in DOMAIN result.multipleResults |-> result.multipleResults[k].result],
             NoError, 0)

\* the file branch of handleCommand
handleFile(content, r) ==
    IF ~r.ok THEN handleError(<<>>, r.error)
    ELSE IF content.kind = "list" THEN displayMultipleResults(r.val)
    ELSE displayResult(r.val, IF Truthy(content.excludes) THEN echoText(content.excludes)
                              ELSE <<>>)

\* the branch of handleCommand for includes given on the command line
handleArgs(options, r) ==
    IF ~r.ok THEN handleError(<<>>, r.error)
    ELSE displayResult(r.val, orEmpty(options.excludes).text)

handleCommand(options, content) ==
    IF Truthy(options.file) THEN handleFile(content, processFromFile(content))
    ELSE IF options.includes.kind \notin {"undefined", "null"}
    THEN handleArgs(options, processFromArgs(options.includes, options.excludes))
    ELSE handleError(<<>>, <<"No input provided. Use -i for includes or --file for file input.">>)

\* the first statements of main: the help text and exit(0), or on to
\* handleCommand
main(options) ==
    IF options.help \/ (options.includes.kind \in {"undefined", "null"} /\ ~Truthy(options.file))
    THEN cliState("exited", TRUE, <<>>, NoError, 0)
    ELSE cliState("handleCommand", FALSE, <<>>, NoError, 0)

T12 == <<"1", "-", "2">>
T21 == <<"2", "-", "1">>
T11 == <<"1", "-", "1">>

\* the objects a file may hold
FileObjects ==
    {[kind |-> "object", includes |-> i, excludes |-> e] :
        i \in {Undefined, Num, Str(<<>>), Str(T12), Str(T21), Arr(<<T12, T11>>),
               Arr(<<T12 \o <<",">> >>)},
        e \in {Undefined, Num, Str(T11), Arr(<<T11>>)}}

\* what reading and parsing the file may give
FileContents ==
    {[kind |-> "enoent"], [kind |-> "badjson"], [kind |-> "number"],
     [kind |-> "list", items |-> <<>>]}
        \cup FileObjects
        \cup {[kind |-> "list", items |-> <<o>>] : o \in FileObjects}

\* the file is read in the file branch only
ReadFile(options) == IF Truthy(options.file) THEN FileContents ELSE {[kind |-> "unread"]}

\* the options parseArgs returns: every pair of texts without a file, and a
\* few options with each file value
InitCli ==
    /\ op = "cli"
    /\ input \in [includes : ArgValues \ {Null}, excludes : ArgValues \ {Null},
                  file : {Undefined}, help : BOOLEAN]
                 \cup [includes : {Undefined, Str(T12)}, excludes : {Undefined, Str(T11)},
                       file : FileValues \ {Null}, help : BOOLEAN]
    /\ ret = cliState("main", FALSE, <<>>, NoError, 0)
    /\ prev = <<>>

Main ==
    /\ op = "cli"
    /\ ret.pc = "main"
    /\ ret' = main(input)
    /\ UNCHANGED <<op, input, prev>>

HandleCommand ==
    /\ op = "cli"
    /\ ret.pc = "handleCommand"
    /\ \E content \in ReadFile(input) : ret' = handleCommand(input, content)
    /\ UNCHANGED <<op, input, prev>>

NextCli == Main \/ HandleCommand

SpecCli == InitCli /\ [][NextCli]_vars

(***************************************************************************)
(* The scan of the sorted excludes for one include, one exclude per step   *)
(* (the inner loop of subtractIntervals).                                  *)
(***************************************************************************)
\* the locals of the scan: k is the index of the next exclude, st the state
\* of scanStep, before the pieces ahead of the last step, applied the
\* indexes of the excludes that reached the flatMap, at the index of the
\* exclude the break was taken on (0: no break)
scanLocals(sortedExcludes, k, st, before, applied, at) ==
    [sortedExcludes |-> sortedExcludes, k |-> k, st |-> st, before |-> before,
     applied |-> applied, at |-> at]

InitScan ==
    /\ op = "scan"
    /\ input \in [include : Ranges, excludes : SeqsUpTo(Ranges, MaxScanExc) \ {<<>>}]
    /\ ret = scanLocals(sort(input.excludes), 1,
                        [current |-> <<input.include>>, stopped |-> FALSE, branches |-> {}],
                        <<input.include>>, {}, 0)
    /\ prev = <<>>

\* one iteration of the loop over sortedExcludes
ScanNext ==
    /\ op = "scan"
    /\ ~ret.st.stopped
    /\ ret.k <= Len(ret.sortedExcludes)
    /\ LET exclude == ret.sortedExcludes[ret.k]
           st == scanStep(input.include, ret.st, exclude)
       IN  ret' = scanLocals(ret.sortedExcludes, ret.k + 1, st, ret.st.current,
                             IF st.stopped \/ exclude.end < input.include.start
                             THEN ret.applied ELSE ret.applied \cup {ret.k},
                             IF st.stopped THEN ret.k ELSE 0)
    /\ UNCHANGED <<op, input, prev>>

\* the loop is left, by the break or at its end: result.push(...current)
ScanPush ==
    /\ op = "scan"
    /\ ret.st.stopped \/ ret.k > Len(ret.sortedExcludes)
    /\ op' = "scanned"
    /\ UNCHANGED <<input, ret, prev>>

NextScan == ScanNext \/ ScanPush

SpecScan == InitScan /\ [][NextScan]_vars

(***************************************************************************)
(* The walk of mergeIntervals over the sorted includes, one range per step.*)
(***************************************************************************)
\* sorted, the index i of next (counted from 1) and acc = [merged, current,
\* branches], after the statements ahead of the loop
InitWalk ==
    /\ op = "walk"
    /\ input \in [intervals : {xs \in SeqsUpTo(Ranges, MaxMerge) : Len(xs) > 1}]
    /\ ret = [sorted |-> sort(input.intervals), i |-> 2,
              acc |-> [merged |-> <<>>, current |-> sort(input.intervals)[1],
                       branches |-> {}]]
    /\ prev = <<>>

\* one iteration of the loop
WalkNext ==
    /\ op = "walk"
    /\ ret.i <= Len(ret.sorted)
    /\ ret' = [ret EXCEPT !.i = ret.i + 1, !.acc = mergeStep(ret.acc, ret.sorted[ret.i])]
    /\ UNCHANGED <<op, input, prev>>

\* the loop is over: merged.push(current)
WalkPush ==
    /\ op = "walk"
    /\ ret.i > Len(ret.sorted)
    /\ op' = "walked"
    /\ ret' = [ret EXCEPT !.acc.merged = Append(ret.acc.merged, ret.acc.current)]
    /\ UNCHANGED <<input, prev>>

NextWalk == WalkNext \/ WalkPush

SpecWalk == InitWalk /\ [][NextWalk]_vars

(***************************************************************************)
(* Validation followed by parsing and process: processFromArgs on texts,   *)
(* processFromFile on an object whose fields are texts or arrays of texts. *)
(***************************************************************************)
\* what the includes or excludes of a call may hold: a text, or an array of
\* texts; one array holds an item that lists two intervals
FieldValues ==
    {Str(t) : t \in ArgTexts}
        \cup {Arr(items) : items \in SeqsUpTo(ArgTexts, MaxItems)}
        \cup {Arr(<<T12 \o <<",">> \o T11>>)}

InitValid ==
    /\ op = "init"
    /\ input \in [includes : FieldValues, excludes : FieldValues \cup {Undefined}]
    /\ ret = <<>>
    /\ prev = <<>>

\* processFromArgs on texts, with what its validation and the parser say
CallProcessFromArgs ==
    /\ op = "init"
    /\ input.includes.kind = "string"
    /\ input.excludes.kind \in {"string", "undefined"}
    /\ op' = "processFromArgs"
    /\ ret' = [validation |-> validateCliArgs(input.includes, input.excludes, Undefined),
               outcome |-> processFromArgs(input.includes, input.excludes)]
    /\ UNCHANGED <<input, prev>>

\* processFromFile on a file that holds the object {includes, excludes}
CallProcessFromFile ==
    /\ op = "init"
    /\ op' = "processFromFile"
    /\ ret' = [validation |-> validateFileInput([kind |-> "object",
                                                  includes |-> input.includes,
                                                  excludes |-> input.excludes]),
               outcome |-> processFromFile([kind |-> "object",
                                            includes |-> input.includes,
                                            excludes |-> input.excludes])]
    /\ UNCHANGED <<input, prev>>

NextValid == CallProcessFromArgs \/ CallProcessFromFile

SpecValid == InitValid /\ [][NextValid]_vars

(***************************************************************************)
(* Properties.                                                             *)
(***************************************************************************)
\* the integers a range covers, and those a sequence of ranges covers
Cover(r) == r.start..r.end
CoverAll(rs) == UNION {Cover(rs[k]) : k \in DOMAIN rs}

WellFormed(rs) == \A k \in DOMAIN rs : rs[k].start <= rs[k].end

\* sorted by start, no two ranges overlapping or adjacent
Canonical(rs) == \A k \in 1..(Len(rs) - 1) : rs[k].end + 1 < rs[k + 1].start

\* the orderings of a sequence
Orderings(xs) ==
    {[k \in DOMAIN xs |-> xs[f[k]]] : f \in {g \in [DOMAIN xs -> DOMAIN xs] :
                                               \A i, j \in DOMAIN xs : i # j => g[i] # g[j]}}

ProcessReturned == op \in {"process", "processAgain"} /\ ret.error = NoError

\* C1: the integers covered by the ranges process returns are exactly those
\* covered by at least one include and by no exclude.
C1_CoverageIdentity ==
    ProcessReturned =>
        CoverAll(ret.intervals) =
            CoverAll(ret.trace.includeIntervals) \ CoverAll(ret.trace.excludeIntervals)

\* overlapping includes given out of order, two excludes that overlap each
\* other, one of them repeated in the includes' span, two ranges left
C1_Witness ==
    /\ op = "process"
    /\ Len(ret.trace.includeIntervals) = 2
    /\ ret.trace.includeIntervals[1].start > ret.trace.includeIntervals[2].start
    /\ overlaps(ret.trace.includeIntervals[1], ret.trace.includeIntervals[2])
    /\ Len(ret.trace.excludeIntervals) = 2
    /\ overlaps(ret.trace.excludeIntervals[1], ret.trace.excludeIntervals[2])
    /\ ret.trace.excludeIntervals[1] # ret.trace.excludeIntervals[2]
    /\ Len(ret.intervals) = 2

\* C2: every sequence process returns is canonical: consecutive ranges r, s
\* satisfy r.end + 1 < s.start.
C2_OutputCanonical ==
    ProcessReturned => WellFormed(ret.intervals) /\ Canonical(ret.intervals)

\* two adjacent includes given out of order and an exclude that cuts the
\* merged range in two
C2_Witness ==
    /\ op = "process"
    /\ Len(ret.trace.includeIntervals) = 2
    /\ ret.trace.includeIntervals[2].end + 1 = ret.trace.includeIntervals[1].start
    /\ Len(ret.trace.merged) = 1
    /\ Len(ret.intervals) = 2

\* C3: a.subtract(b) has 0, 1 or 2 pieces, which cover exactly the integers of
\* a that are not in b; every piece has start <= end, and two pieces are
\* disjoint with the lower one first.
C3_SubtractExact ==
    op = "subtract" =>
        /\ Len(ret.pieces) \in 0..2
        /\ CoverAll(ret.pieces) = Cover(ArgA) \ Cover(ArgB)
        /\ WellFormed(ret.pieces)
        /\ Len(ret.pieces) = 2 => ret.pieces[1].end < ret.pieces[2].start

\* an exclude strictly inside the range: two pieces
C3_Witness ==
    /\ op = "subtract"
    /\ ArgB.start > ArgA.start
    /\ ArgB.end < ArgA.end
    /\ Len(ret.pieces) = 2

\* C4: mergeIntervals returns a canonical sequence that covers exactly the
\* union of its inputs, whatever their order.
C4_MergeCanonicalUnion ==
    op = "mergeIntervals" =>
        /\ WellFormed(ret.out)
        /\ Canonical(ret.out)
        /\ CoverAll(ret.out) = CoverAll(input.intervals)

\* a chain of three adjacent ranges given in descending order
C4_Witness ==
    /\ op = "mergeIntervals"
    /\ Len(input.intervals) = 3
    /\ input.intervals[3].end + 1 = input.intervals[2].start
    /\ input.intervals[2].end + 1 = input.intervals[1].start
    /\ Len(ret.out) = 1

\* C5: process run again on the ranges it returned, with no excludes, returns
\* the same sequence of ranges.
C5_Idempotent ==
    op = "processAgain" => ret.error = NoError /\ ret.intervals = prev.intervals

\* the second run was given two ranges, the first of them negative
C5_Witness ==
    /\ op = "processAgain"
    /\ Len(prev.intervals) = 2
    /\ prev.intervals[1].end < 0
    /\ Len(ret.trace.includeIntervals) = 2

\* C6: process returns the same sequence for every ordering of the includes
\* and every ordering of the excludes.
C6_OrderIndependent ==
    op = "process" =>
        \A incs \in Orderings(ret.trace.includeIntervals),
           excs \in Orderings(ret.trace.excludeIntervals) :
            process([includes |-> ListText(incs), excludes |-> ListText(excs)]).intervals
                = ret.intervals

\* two separate includes and two separate excludes, both given in descending
\* order, each exclude cutting one include
C6_Witness ==
    /\ op = "process"
    /\ Len(ret.trace.includeIntervals) = 2
    /\ ret.trace.includeIntervals[1].start > ret.trace.includeIntervals[2].end + 1
    /\ Len(ret.trace.excludeIntervals) = 2
    /\ ret.trace.excludeIntervals[1].start > ret.trace.excludeIntervals[2].end
    /\ overlaps(ret.trace.includeIntervals[1], ret.trace.excludeIntervals[1])
    /\ overlaps(ret.trace.includeIntervals[2], ret.trace.excludeIntervals[2])
    /\ Len(ret.intervals) = 2

\* C7: the constructor given start <= end yields a range with exactly those
\* endpoints; given start > end it fails with 'Invalid interval'.
C7_ConstructorContract ==
    op = "new" =>
        IF input.s1 <= input.e1
        THEN ret.ok /\ ret.val.start = input.s1 /\ ret.val.end = input.e1
        ELSE ~ret.ok /\ ret.error = "Invalid interval"

\* a rejected construction
C7_Witness == op = "new" /\ input.s1 > input.e1 /\ ~ret.ok

\* C8: a.merge(b) returns [min of the starts, max of the ends] when a overlaps
\* or is adjacent to b, and fails with 'Cannot merge' otherwise.
C8_MergeContract ==
    op = "merge" =>
        IF overlaps(ArgA, ArgB) \/ isAdjacent(ArgA, ArgB)
        THEN /\ ret.ok
             /\ ret.val = [start |-> Min(ArgA.start, ArgB.start),
                           end |-> Max(ArgA.end, ArgB.end)]
        ELSE ~ret.ok /\ ret.error = "Cannot merge"

\* an adjacent pair, the receiver above the argument, merged
C8_Witness ==
    /\ op = "merge"
    /\ ArgB.end + 1 = ArgA.start
    /\ ret.ok

\* C9: on well-formed ranges process returns a result without an error, merge
\* is never invoked on a pair that is neither overlapping nor adjacent, and
\* the catch branch of the merge loop is never taken.
C9_ProcessNeverThrows ==
    op = "process" =>
        /\ ret.error = NoError
        /\ "notMergeable" \notin ret.trace.branches
        /\ "loopCatch" \notin ret.trace.branches

\* two includes one integer apart: the loop must not merge them
C9_Witness ==
    /\ op = "process"
    /\ Len(ret.trace.includeIntervals) = 2
    /\ ret.trace.includeIntervals[1].end + 2 = ret.trace.includeIntervals[2].start
    /\ Len(ret.trace.merged) = 2

CatchBranches == {"mergeCatch", "middleCatch", "lowCatch", "highCatch"}

\* C10: merge, subtract, mergeIntervals and subtractIntervals on well-formed
\* ranges never construct a range with start > end: no catch branch of merge
\* or subtract is taken and every range they return has start <= end.
C10_NoInvalidRangeBuilt ==
    /\ op = "merge" => ret.branch \notin CatchBranches /\ (ret.ok => WellFormed(<<ret.val>>))
    /\ op = "subtract" => ret.branch \notin CatchBranches /\ WellFormed(ret.pieces)
    /\ op \in {"mergeIntervals", "subtractIntervals"} =>
           ret.branches \cap CatchBranches = {} /\ WellFormed(ret.out)

\* a subtraction phase that took the middle, the low-end and the high-end
\* branch of subtract
C10_Witness ==
    /\ op = "subtractIntervals"
    /\ {"middle", "low", "high"} \subseteq ret.branches

\* the texts of the call name a pair whose start is greater than its end
Reversed(t) == INTERVAL_PARSE(t).match /\ parseInt(INTERVAL_PARSE(t).g1) > parseInt(INTERVAL_PARSE(t).g2)

HasReversed(in) == \E k \in DOMAIN split(in.text) : Reversed(trim(split(in.text)[k]))

InvalidRangeArose == HasReversed(input.includes) \/ HasReversed(input.excludes)

\* C11 as stated: an InvalidRange error that arises while process runs leaves
\* process as an exception, not as a returned result.
C11_ErrorReachesCaller ==
    (op = "process" /\ InvalidRangeArose) => ret.thrown

\* C11, amended: process catches the error: it returns a result object with no
\* intervals, the error field set to the message "Error parsing interval k:
\* Invalid interval" and formatted "(error: message)"; no exception leaves it.
C11_ErrorReturned ==
    (op = "process" /\ InvalidRangeArose) =>
        /\ ~ret.thrown
        /\ ret.intervals = <<>>
        /\ Len(ret.error) = 3
        /\ ret.error[1] = "Error parsing interval"
        /\ ret.error[3] = "Invalid interval"
        /\ ret.formatted = <<"(error: ">> \o ret.error \o <<")">>

\* a valid include followed by a reversed one: the second text is reported
C11_Witness ==
    /\ op = "process"
    /\ Len(split(input.includes.text)) = 2
    /\ ~Reversed(trim(split(input.includes.text)[1]))
    /\ Reversed(trim(split(input.includes.text)[2]))
    /\ ret.error = <<"Error parsing interval", "2", "Invalid interval">>

\* C12: with an empty include collection process returns the empty sequence,
\* formatted as "(none)", and no error, whatever the excludes are.
C12_EmptyIncludes ==
    (op = "process" /\ Len(input.includes.text) = 0) =>
        /\ ret.intervals = <<>>
        /\ ret.formatted = NoneText
        /\ ret.error = NoError
        /\ ~ret.thrown

\* no includes and two excludes
C12_Witness ==
    /\ op = "process"
    /\ Len(input.includes.text) = 0
    /\ Len(ret.trace.excludeIntervals) = 2
    /\ ret.formatted = NoneText

\* ascending by Interval.compare
Sorted(rs) == \A k \in 1..(Len(rs) - 1) : compare(rs[k], rs[k + 1]) <= 0

\* ascending and pairwise disjoint, as the merge phase leaves the includes
SortedDisjoint(rs) == \A k \in 1..(Len(rs) - 1) : rs[k].end < rs[k + 1].start

\* C13 as stated: for includes in any order and a non-empty exclude collection
\* subtractIntervals returns its pieces in ascending order of start, then end.
C13_SubtractionSorted ==
    (op = "subtractIntervals" /\ Len(input.excludes) > 0) => Sorted(ret.out)

\* C13, amended: subtractIntervals does not sort its result; for includes that
\* are ascending and pairwise disjoint (the merge phase's output) and a
\* non-empty exclude collection the returned pieces are ascending and disjoint.
C13_SortedForSortedIncludes ==
    (op = "subtractIntervals" /\ Len(input.excludes) > 0 /\ SortedDisjoint(input.includes)) =>
        Sorted(ret.out) /\ SortedDisjoint(ret.out)

\* two disjoint includes in ascending order, the first split by an exclude
C13_Witness ==
    /\ op = "subtractIntervals"
    /\ Len(input.includes) = 2
    /\ SortedDisjoint(input.includes)
    /\ Len(input.excludes) > 0
    /\ "middle" \in ret.branches
    /\ Len(ret.out) = 3

\* C14: with no excludes subtractIntervals returns the include sequence it was
\* given, same ranges in the same order, and process returns exactly what the
\* merge phase produced.
C14_NoExcludesUnchanged ==
    /\ (op = "subtractIntervals" /\ Len(input.excludes) = 0) => ret.out = input.includes
    /\ (op = "process" /\ Len(input.excludes) = 0) =>
           /\ ret.error = NoError
           /\ Len(ret.intervals) = Len(ret.trace.merged)
           /\ \A k \in DOMAIN ret.intervals : ret.intervals[k] = toJSON(ret.trace.merged[k])

\* two includes given in descending order and no excludes
C14_Witness ==
    /\ op = "subtractIntervals"
    /\ Len(input.excludes) = 0
    /\ Len(input.includes) = 2
    /\ compare(input.includes[1], input.includes[2]) > 0
    /\ ret.out = input.includes

Shared(a, b) == Cover(a) \cap Cover(b)

\* C16: a.overlaps(b) = b.overlaps(a), and it is true exactly when
\* a.start <= b.end and b.start <= a.end, that is when a and b share an
\* integer; ranges that share only an endpoint overlap, ranges with
\* a.end + 1 = b.start do not.
C16_OverlapsSymmetric ==
    op = "overlaps" =>
        /\ ret.value = ret.swapped
        /\ ret.value = (ArgA.start <= ArgB.end /\ ArgB.start <= ArgA.end)
        /\ ret.value = (Shared(ArgA, ArgB) # {})
        /\ ArgA.end = ArgB.start => ret.value
        /\ ArgA.end + 1 = ArgB.start => ~ret.value

\* two ranges of more than one integer that share exactly an endpoint
C16_Witness ==
    /\ op = "overlaps"
    /\ ArgA.start < ArgA.end
    /\ ArgA.end = ArgB.start
    /\ ArgB.start < ArgB.end
    /\ ret.value

\* the integers that lie strictly between two ranges
Between(a, b) == (Min(a.end, b.end) + 1)..(Max(a.start, b.start) - 1)

\* C17: a.isAdjacent(b) = b.isAdjacent(a); a range pair never overlaps and is
\* adjacent at once; adjacency holds exactly when the ranges share no integer
\* and no integer lies between them.
C17_AdjacentSymmetric ==
    op = "isAdjacent" =>
        /\ ret.value = ret.swapped
        /\ ~(ret.overlaps /\ ret.value)
        /\ ret.value = (Shared(ArgA, ArgB) = {} /\ Between(ArgA, ArgB) = {})

\* the receiver lies right above the argument
C17_Witness ==
    /\ op = "isAdjacent"
    /\ ArgB.end + 1 = ArgA.start
    /\ ret.value
    /\ ~ret.overlaps

Sign(n) == IF n < 0 THEN 0 - 1 ELSE IF n > 0 THEN 1 ELSE 0

\* a before b: lower start, or the same start and lower end
Before(a, b) == a.start < b.start \/ (a.start = b.start /\ a.end < b.end)

\* C18: compare(a, b) is negative exactly when a comes before b by start, then
\* end, zero exactly when both endpoints are equal and positive otherwise; the
\* sign of compare(b, a) is the opposite; the order is transitive.
C18_CompareTotalOrder ==
    op = "compare" =>
        /\ (ret.ab < 0) = Before(input.a, input.b)
        /\ (ret.ab = 0) = (input.a.start = input.b.start /\ input.a.end = input.b.end)
        /\ (ret.ab > 0) = Before(input.b, input.a)
        /\ Sign(ret.ba) = 0 - Sign(ret.ab)
        /\ (ret.ab < 0 /\ ret.bc < 0) => ret.ac < 0
        /\ (ret.ab <= 0 /\ ret.bc <= 0) => ret.ac <= 0

\* three ranges in a chain, the first two with the same start
C18_Witness ==
    /\ op = "compare"
    /\ input.a.start = input.b.start
    /\ ret.ab < 0
    /\ ret.bc < 0
    /\ ret.ac < 0

\* the text a process result carries describes these ranges
Described(text) == parseIntervals([kind |-> "string", text |-> text])

\* C19 as stated: for every result of process, formatted is "(none)" exactly
\* when intervals is empty.
C19_NoneIffEmpty ==
    op = "process" => (ret.formatted = NoneText) = (ret.intervals = <<>>)

\* C19, amended: when process reports no error, formatted is "(none)" exactly
\* when intervals is empty and otherwise the start-end forms of the intervals,
\* in order, joined by ", ", so that both fields describe the same ranges;
\* when it reports an error, intervals is empty and formatted is
\* "(error: message)".
C19_FormattedMatchesIntervals ==
    op = "process" =>
        IF ret.error = NoError
        THEN /\ (ret.formatted = NoneText) = (ret.intervals = <<>>)
             /\ ret.formatted = formatIntervals(ret.intervals)
             /\ ret.intervals # <<>> =>
                    /\ ret.formatted = join([k \in DOMAIN ret.intervals |->
                                                toString(ret.intervals[k])], <<",", " ">>)
                    /\ Described(ret.formatted).ok
                    /\ Described(ret.formatted).val = ret.intervals
        ELSE /\ ret.intervals = <<>>
             /\ ret.formatted = <<"(error: ">> \o ret.error \o <<")">>
             /\ ret.formatted # NoneText

\* the exclude removes every included integer: no error and "(none)"
C19_Witness ==
    /\ op = "process"
    /\ ret.error = NoError
    /\ Len(ret.trace.includeIntervals) = 2
    /\ Len(ret.trace.excludeIntervals) = 1
    /\ ret.intervals = <<>>
    /\ ret.formatted = NoneText

\* what process returns for set k on its own
Alone(k) == process(input.sets[k])

JsonEndings ==
    {<<".", j, s, o, n>> : j \in {"j", "J"}, s \in {"s", "S"}, o \in {"o", "O"},
                           n \in {"n", "N"}}

EndsInJson(t) == Len(t) >= 5 /\ SubSeq(t, Len(t) - 4, Len(t)) \in JsonEndings

CliEnded == op = "cli" /\ ret.pc \in {"exited", "returned"}

\* C22: a run of the command with includes given as the empty text, excludes
\* given as a valid non-empty list and no file (and no --help) ends having
\* printed the result '(none)', without the help text and without an error
C22_EmptyIncludesPrintsNone ==
    (/\ CliEnded
     /\ input.includes = Str(<<>>)
     /\ input.file = Undefined
     /\ ~input.help
     /\ Truthy(input.excludes)
     /\ validateIntervalString(input.excludes.text).valid)
        => /\ ret.output = <<NoneText>>
           /\ ~ret.help
           /\ ret.error = NoError
           /\ ret.code = 0

\* C23: when the scan of the sorted excludes for an include stops at an
\* exclude with exclude.start > include.end, neither that exclude nor any
\* later one shares an integer with the include, and every exclude that does
\* share one was applied
C23_EarlyExitSound ==
    (op \in {"scan", "scanned"} /\ ret.st.stopped) =>
        /\ ret.at \in DOMAIN ret.sortedExcludes
        /\ ret.sortedExcludes[ret.at].start > input.include.end
        /\ \A j \in DOMAIN ret.sortedExcludes :
              /\ j >= ret.at => Cover(ret.sortedExcludes[j]) \cap Cover(input.include) = {}
              /\ Cover(ret.sortedExcludes[j]) \cap Cover(input.include) # {}
                    => j \in ret.applied

C23_Witness ==
    /\ op = "scanned"
    /\ ret.st.stopped
    /\ ret.at = 2
    /\ Len(ret.sortedExcludes) = 3
    /\ ret.applied = {1}

\* C24: for every canonical include sequence and every exclude collection the
\* optimized subtraction (sorted excludes, early exit, skip) and the naive one
\* (every exclude in the order given on every piece, then a sort) return the
\* same sequence of ranges
C24_OptimizedEqualsNaive ==
    (op = "subtractNaive" /\ Canonical(input.includes)) => ret.optimized = ret.naive

C24_Witness ==
    /\ op = "subtractNaive"
    /\ Canonical(input.includes)
    /\ Len(input.includes) = 2
    /\ Len(input.excludes) = 2
    /\ compare(input.excludes[1], input.excludes[2]) > 0
    /\ Len(ret.optimized) = 3
    /\ ret.optimized = ret.naive

\* the guards of subtract that hold for the range a and the exclude b
GuardsHolding(a, b) ==
    {g \in {"middle", "low", "high"} :
        \/ g = "middle" /\ b.start > a.start /\ b.end < a.end
        \/ g = "low" /\ b.start <= a.start /\ b.end < a.end
        \/ g = "high" /\ b.start > a.start /\ b.end >= a.end}

\* C25: when the exclude b shares an integer with the range a and does not
\* cover all of a, exactly one of the three guards of a.subtract(b) holds and
\* subtract returns from the branch of that guard; the return after the three
\* guards is never reached
C25_ExactlyOneGuard ==
    op = "subtract" =>
        /\ ret.branch # "fallThrough"
        /\ (Shared(ArgA, ArgB) # {} /\ ~(Cover(ArgA) \subseteq Cover(ArgB)))
              => /\ Cardinality(GuardsHolding(ArgA, ArgB)) = 1
                 /\ ret.branch \in GuardsHolding(ArgA, ArgB)

C25_Witness ==
    /\ op = "subtract"
    /\ ArgB.start = ArgA.start
    /\ ArgB.end < ArgA.end
    /\ ret.branch = "low"

\* the pieces of a sequence, as a set
Pieces(rs) == {rs[k] : k \in DOMAIN rs}

\* C26: after each exclude processed for an include, the remaining pieces are
\* in ascending order and pairwise disjoint, each lies inside the include,
\* none shares an integer with an exclude already applied, and the pieces
\* that did not overlap the exclude just applied are unchanged
C26_WorkingSet ==
    op \in {"scan", "scanned"} =>
        /\ WellFormed(ret.st.current)
        /\ SortedDisjoint(ret.st.current)
        /\ \A p \in Pieces(ret.st.current) :
              /\ Cover(p) \subseteq Cover(input.include)
              /\ \A j \in ret.applied : Shared(p, ret.sortedExcludes[j]) = {}
        /\ (ret.k - 1) \in ret.applied
              => \A q \in Pieces(ret.before) :
                    Shared(q, ret.sortedExcludes[ret.k - 1]) = {}
                        => q \in Pieces(ret.st.current)

\* two excludes applied, the second to the second piece alone
C26_Witness ==
    /\ op = "scan"
    /\ ret.applied = {1, 2}
    /\ ret.k = 3
    /\ Len(ret.before) = 2
    /\ Len(ret.st.current) = 3
    /\ ret.before[1] = ret.st.current[1]

\* C27: at every step of the merge loop over the sorted includes,
\* current.start <= next.start, the ranges emitted so far are canonical,
\* every emitted range e has e.end + 1 < current.start, and the emitted
\* ranges together with current cover exactly the includes visited so far
C27_MergeWalk ==
    op = "walk" =>
        /\ ret.i <= Len(ret.sorted) => ret.acc.current.start <= ret.sorted[ret.i].start
        /\ WellFormed(ret.acc.merged)
        /\ Canonical(ret.acc.merged)
        /\ \A e \in Pieces(ret.acc.merged) : e.end + 1 < ret.acc.current.start
        /\ CoverAll(ret.acc.merged) \cup Cover(ret.acc.current)
              = CoverAll(SubSeq(ret.sorted, 1, ret.i - 1))

\* one range emitted, the last range about to be merged into current
C27_Witness ==
    /\ op = "walk"
    /\ Len(ret.acc.merged) = 1
    /\ ret.i = 3
    /\ ret.i = Len(ret.sorted)
    /\ "merged" \notin ret.acc.branches
    /\ ret.sorted[3].start <= ret.acc.current.end + 1

\* C28: process returns at most as many ranges as the merge phase produced
\* plus the number of exclude ranges, and the ranges returned cover nothing
\* outside the merged ranges
C28_OutputCountBound ==
    ProcessReturned =>
        /\ Len(ret.intervals) <= Len(ret.trace.merged) + Len(ret.trace.excludeIntervals)
        /\ CoverAll(ret.intervals) \subseteq CoverAll(ret.trace.merged)

\* the bound is met: one merged range split twice
C28_Witness ==
    /\ op = "process"
    /\ ret.error = NoError
    /\ Len(ret.trace.includeIntervals) = 2
    /\ Len(ret.trace.merged) = 1
    /\ Len(ret.trace.excludeIntervals) = 2
    /\ Len(ret.intervals) = 3

\* C29: when a.merge(b) succeeds, the range it returns covers exactly the
\* integers of a and of b, and b.merge(a) succeeds with the same start and end
C29_MergeExactUnion ==
    (op = "merge" /\ ret.ok) =>
        /\ Cover(ret.val) = Cover(ArgA) \cup Cover(ArgB)
        /\ merge(ArgB, ArgA).ok
        /\ merge(ArgB, ArgA).val = ret.val

\* an overlapping pair, the receiver starting above the argument
C29_Witness ==
    /\ op = "merge"
    /\ ret.ok
    /\ ArgA.start > ArgB.start
    /\ ArgA.start < ArgB.end
    /\ ArgA.end > ArgB.end

\* C30: includes and excludes (a comma-separated text or an array of texts)
\* that the validators accept are parsed by parseIntervals without an error
\* (the handler does not end by the parser's error), and process on them
\* returns a result without an error
C30_ValidatedInputParses ==
    (op \in {"processFromArgs", "processFromFile"} /\ ret.validation.valid) =>
        /\ ret.outcome.ok
        /\ ret.outcome.val.error = NoError

====
